---- MODULE Spec2Model ----
(***************************************************************************)
(* Model of the movie-collection manager: the SQL storage layer            *)
(* (movie_storage/movie_storage_sql.py) and the menu loop (movies.py).     *)
(*                                                                         *)
(* Text (names, titles, notes, input lines) is a sequence of one-character *)
(* strings, so that strip(), lower(), capitalize(), isdigit() and int()    *)
(* are computed as Python computes them.  Ratings are kept in tenths       *)
(* (8.3 is 83).  The value None is the integer -1; ids handed to           *)
(* set_active_user are drawn from the non-negative integers.               *)
(***************************************************************************)
EXTENDS Integers, Sequences, FiniteSets, TLC

VARIABLES users, movies, current_user_id, files, empty_attempts, pc, last

vars == <<users, movies, current_user_id, files, empty_attempts, pc, last>>

(* ------------------------------ bounds --------------------------------- *)

\* most rows the users table holds in the model
MaxUsers == 2

\* most rows the movies table holds in the model
MaxMovies == 2

None == 0 - 1

(* ------------------------------ text ----------------------------------- *)

Lowers == <<"a","b","c","d","e","f","g","h","i","j","k","l","m",
            "n","o","p","q","r","s","t","u","v","w","x","y","z">>

Uppers == <<"A","B","C","D","E","F","G","H","I","J","K","L","M",
            "N","O","P","Q","R","S","T","U","V","W","X","Y","Z">>

\* the decimal digits int() accepts
Digits == <<"0","1","2","3","4","5","6","7","8","9">>

\* characters for which str.isdigit() is true and int() raises ValueError
SuperDigits == {"²", "³"}

IsSpace(c) == c = " "

LowerChar(c) ==
  IF \E i \in 1..26 : Uppers[i] = c
  THEN Lowers[CHOOSE i \in 1..26 : Uppers[i] = c]
  ELSE c

UpperChar(c) ==
  IF \E i \in 1..26 : Lowers[i] = c
  THEN Uppers[CHOOSE i \in 1..26 : Lowers[i] = c]
  ELSE c

\* str.lower()
Lower(s) == [i \in 1..Len(s) |-> LowerChar(s[i])]

\* str.capitalize(): first character upper-cased, the rest lower-cased
Capitalize(s) ==
  IF s = <<>> THEN <<>>
  ELSE <<UpperChar(s[1])>> \o Lower(Tail(s))

RECURSIVE LStrip(_)
LStrip(s) ==
  IF s # <<>> /\ IsSpace(s[1]) THEN LStrip(Tail(s)) ELSE s

RECURSIVE RStrip(_)
RStrip(s) ==
  IF s # <<>> /\ IsSpace(s[Len(s)]) THEN RStrip(SubSeq(s, 1, Len(s) - 1)) ELSE s

\* str.strip()
Strip(s) == RStrip(LStrip(s))

\* str.isdigit(): non-empty and every character is a digit character
IsDigit(s) ==
  /\ s # <<>>
  /\ \A i \in 1..Len(s) :
       \/ \E d \in 1..10 : Digits[d] = s[i]
       \/ s[i] \in SuperDigits

DigitValue(c) == (CHOOSE d \in 1..10 : Digits[d] = c) - 1

IsDecimal(s) ==
  /\ s # <<>>
  /\ \A i \in 1..Len(s) : \E d \in 1..10 : Digits[d] = s[i]

RECURSIVE DecimalValue(_)
DecimalValue(s) ==
  IF s = <<>> THEN 0
  ELSE 10 * DecimalValue(SubSeq(s, 1, Len(s) - 1)) + DigitValue(s[Len(s)])

\* int(s): the value of a decimal literal; ValueError (here -1) otherwise
PyInt(s) == IF IsDecimal(s) THEN DecimalValue(s) ELSE None

\* the float that is not a number
NaN == 0 - 2

\* a < b on floats: every comparison with nan is false
FloatLess(a, b) == a # NaN /\ b # NaN /\ a < b

\* float(s) of a literal "d...d" or "d.d", in tenths, and of "nan" in any
\* letter case; ValueError (here -1) otherwise
PyFloat(s) ==
  IF IsDecimal(s) THEN 10 * DecimalValue(s)
  ELSE IF Lower(s) = <<"n","a","n">> THEN NaN
  ELSE IF Len(s) = 3 /\ s[2] = "." /\ IsDecimal(<<s[1], s[3]>>)
  THEN 10 * DigitValue(s[1]) + DigitValue(s[3])
  ELSE None

(* --------------------------- input domains ----------------------------- *)

Up == <<"U","p">>

Alien == <<"A","l","i","e","n">>

Guest == <<"G","u","e","s","t">>

Bob == <<"B","o","b">>

\* arguments passed as a user name
NameInputs ==
  { <<>>, <<" ">>, <<"b","o","b">>, <<" ","B","O","B"," ">> }

\* arguments passed as a movie title
TitleInputs ==
  { <<>>, Up, <<"u","p"," "," ">>, Alien, <<" ","a","l","i","e","n">> }

\* arguments passed as a note
NoteInputs == { <<>>, <<" ">> }

\* arguments passed to set_active_user
IdInputs == {None} \cup (1..(MaxUsers + 1))

(* ----------------------- the metadata service -------------------------- *)

\* JSON bodies the OMDb API answers with
NoMatch ==
  [Response |-> "False", Title |-> <<>>, Year |-> <<>>, imdbRating |-> <<>>,
   Poster |-> "", imdbID |-> "", Country |-> "", Genre |-> ""]

OmdbUp ==
  [Response |-> "True", Title |-> Up, Year |-> <<"2","0","0","9">>,
   imdbRating |-> <<"8",".","3">>, Poster |-> "up.jpg", imdbID |-> "tt1049413",
   Country |-> "United States", Genre |-> "Animation, Adventure"]

OmdbAlien ==
  [Response |-> "True", Title |-> Alien, Year |-> <<"1","9","7","9">>,
   imdbRating |-> <<"N","/","A">>, Poster |-> "alien.jpg", imdbID |-> "tt0078748",
   Country |-> "United Kingdom, United States", Genre |-> "Horror, Sci-Fi"]

\* a series: its Year is a range, which int() does not parse
OmdbSeries ==
  [Response |-> "True", Title |-> <<"L","o","s","t">>,
   Year |-> <<"2","0","0","4","-","2","0","1","0">>,
   imdbRating |-> <<"8",".","3">>, Poster |-> "lost.jpg", imdbID |-> "tt0411008",
   Country |-> "United States", Genre |-> "Adventure, Drama"]

ApiData == {NoMatch, OmdbUp, OmdbAlien, OmdbSeries}

\* what requests.get / raise_for_status / json produce: a RequestException
\* (unreachable, timeout, HTTP error status) or a JSON body
Responses ==
  {[http |-> "error", data |-> NoMatch]} \cup {[http |-> "ok", data |-> d] : d \in ApiData}

NoResponse == [http |-> "none", data |-> NoMatch]

NA == <<"N","/","A">>

NoMovie ==
  [title |-> <<>>, year |-> 0, rating |-> 0, poster |-> "", imdb_id |-> "",
   country |-> "", genre |-> ""]

\* a fetch that reports a transport failure as "no match"
fetch_movie_from_api_swallow(title, resp) ==
  IF resp.http = "error" \/ resp.data.Response = "False"
  THEN [exc |-> "", found |-> FALSE, movie |-> NoMovie]
  ELSE IF PyInt(resp.data.Year) = None
  THEN [exc |-> "ValueError", found |-> FALSE, movie |-> NoMovie]
  ELSE [exc |-> "", found |-> TRUE,
        movie |-> [title |-> resp.data.Title,
                   year |-> PyInt(resp.data.Year),
                   rating |-> IF resp.data.imdbRating # <<"N","/","A">>
                              THEN PyFloat(resp.data.imdbRating) ELSE 0,
                   poster |-> resp.data.Poster,
                   imdb_id |-> resp.data.imdbID,
                   country |-> resp.data.Country,
                   genre |-> resp.data.Genre]]

\* fetch_movie_from_api: exc names the exception raised ("" when it returns),
\* found is FALSE when it returns None
fetch_movie_from_api(title, resp) ==
  IF resp.http = "error"
  THEN [exc |-> "ConnectionError", found |-> FALSE, movie |-> NoMovie]
  ELSE IF resp.data.Response = "False"
  THEN [exc |-> "", found |-> FALSE, movie |-> NoMovie]
  ELSE IF PyInt(resp.data.Year) = None
  THEN [exc |-> "ValueError", found |-> FALSE, movie |-> NoMovie]
  ELSE [exc |-> "", found |-> TRUE,
        movie |-> [title |-> resp.data.Title,
                   year |-> PyInt(resp.data.Year),
                   rating |-> IF resp.data.imdbRating # NA
                              THEN PyFloat(resp.data.imdbRating) ELSE 0,
                   poster |-> resp.data.Poster,
                   imdb_id |-> resp.data.imdbID,
                   country |-> resp.data.Country,
                   genre |-> resp.data.Genre]]

(* --------------------------- the database ------------------------------ *)

\* SQL "a = b": never true when an operand is NULL
SqlEq(a, b) == a # None /\ b # None /\ a = b

\* users: name TEXT UNIQUE NOT NULL
UsersViolation(us, name) == \E i \in 1..Len(us) : us[i].name = name

\* the movies table without its UNIQUE(title, user_id) constraint
MoviesViolation_NoUnique(us, ms, row) ==
  \/ row.user_id = None
  \/ ~ \E i \in 1..Len(us) : us[i].id = row.user_id

\* the movies table without its FOREIGN KEY (user_id) constraint enforced
MoviesViolation_NoForeignKey(us, ms, row) ==
  \/ row.user_id = None
  \/ \E i \in 1..Len(ms) : ms[i].title = row.title /\ ms[i].user_id = row.user_id

\* movies: user_id NOT NULL, FOREIGN KEY (user_id) REFERENCES users(id),
\* UNIQUE(title, user_id)
MoviesViolation(us, ms, row) ==
  \/ row.user_id = None
  \/ ~ \E i \in 1..Len(us) : us[i].id = row.user_id
  \/ \E i \in 1..Len(ms) : ms[i].title = row.title /\ ms[i].user_id = row.user_id

\* id INTEGER PRIMARY KEY AUTOINCREMENT (no user row is ever deleted)
NextUserId(us) == Len(us) + 1

\* code point of a character, for the BINARY collation of ORDER BY name
Ord(c) ==
  IF \E i \in 1..26 : Uppers[i] = c THEN 64 + (CHOOSE i \in 1..26 : Uppers[i] = c)
  ELSE IF \E i \in 1..26 : Lowers[i] = c THEN 96 + (CHOOSE i \in 1..26 : Lowers[i] = c)
  ELSE IF \E i \in 1..10 : Digits[i] = c THEN 47 + (CHOOSE i \in 1..10 : Digits[i] = c)
  ELSE 32

RECURSIVE StrLess(_, _)
StrLess(a, b) ==
  IF b = <<>> THEN FALSE
  ELSE IF a = <<>> THEN TRUE
  ELSE IF Ord(a[1]) # Ord(b[1]) THEN Ord(a[1]) < Ord(b[1])
  ELSE StrLess(Tail(a), Tail(b))

RECURSIVE OrderByName(_)
OrderByName(us) ==
  IF us = <<>> THEN <<>>
  ELSE LET m == CHOOSE i \in 1..Len(us) :
                  \A j \in 1..Len(us) : j = i \/ StrLess(us[i].name, us[j].name)
       IN <<us[m]>> \o OrderByName(SubSeq(us, 1, m - 1) \o SubSeq(us, m + 1, Len(us)))

(* ------------------------- storage operations -------------------------- *)

\* get_users: SELECT id, name FROM users ORDER BY name
get_users(us) == OrderByName(us)

\* create_user that forgets to strip the name
create_user_nostrip(us, name) ==
  IF name = <<>>
  THEN [ret |-> "Invalid username.", users |-> us]
  ELSE IF UsersViolation(us, Capitalize(name))
  THEN [ret |-> "Username already exists. Try another one.", users |-> us]
  ELSE [ret |-> "User created successfully.",
        users |-> Append(us, [id |-> NextUserId(us), name |-> Capitalize(name)])]

\* create_user(name)
create_user(us, name) ==
  IF name = <<>>
  THEN [ret |-> "Invalid username.", users |-> us]
  ELSE LET normalized == Capitalize(Strip(name))
       IN IF UsersViolation(us, normalized)
          THEN [ret |-> "Username already exists. Try another one.", users |-> us]
          ELSE [ret |-> "User created successfully.",
                users |-> Append(us, [id |-> NextUserId(us), name |-> normalized])]

\* list_movies without the WHERE user_id = :user_id filter
list_movies_all(ms, cur) ==
  [t \in {ms[i].title : i \in 1..Len(ms)} |->
     LET k == CHOOSE i \in 1..Len(ms) :
                /\ ms[i].title = t
                /\ \A j \in (i + 1)..Len(ms) : ms[j].title # t
     IN [year |-> ms[k].year, rating |-> ms[k].rating,
         poster |-> ms[k].poster, imdb_id |-> ms[k].imdb_id,
         country |-> ms[k].country, note |-> ms[k].note,
         genre |-> ms[k].genre]]

\* list_movies(): the dict built from the rows of the active user; a later
\* row with the same title replaces an earlier one
list_movies(ms, cur) ==
  LET rows == SelectSeq(ms, LAMBDA r : SqlEq(r.user_id, cur))
  IN [t \in {rows[i].title : i \in 1..Len(rows)} |->
        LET k == CHOOSE i \in 1..Len(rows) :
                   /\ rows[i].title = t
                   /\ \A j \in (i + 1)..Len(rows) : rows[j].title # t
        IN [year |-> rows[k].year, rating |-> rows[k].rating,
            poster |-> rows[k].poster, imdb_id |-> rows[k].imdb_id,
            country |-> rows[k].country, note |-> rows[k].note,
            genre |-> rows[k].genre]]

\* add_movie(title, note): ret is the value returned ("" when it raises),
\* exc the exception raised ("" when it returns), requested tells whether the
\* metadata request was made
add_movie(us, ms, cur, title, note, resp) ==
  IF title = <<>> \/ Len(Strip(title)) < 3
  THEN [ret |-> "Movie not found.", exc |-> "", requested |-> FALSE, movies |-> ms]
  ELSE LET f == fetch_movie_from_api(Strip(title), resp)
           row == [title |-> f.movie.title, year |-> f.movie.year,
                   rating |-> f.movie.rating, poster |-> f.movie.poster,
                   imdb_id |-> f.movie.imdb_id, country |-> f.movie.country,
                   note |-> Strip(note), genre |-> f.movie.genre,
                   user_id |-> cur]
       IN IF f.exc # ""
          THEN [ret |-> "", exc |-> f.exc, requested |-> TRUE, movies |-> ms]
          ELSE IF ~ f.found
          THEN [ret |-> "Movie not found.", exc |-> "", requested |-> TRUE, movies |-> ms]
          ELSE IF MoviesViolation(us, ms, row)
          THEN [ret |-> "Movie already exists.", exc |-> "", requested |-> TRUE,
                movies |-> ms]
          ELSE [ret |-> "Movie added successfully.", exc |-> "", requested |-> TRUE,
                movies |-> Append(ms, row)]

\* a DELETE that matches the title for every owner
delete_movie_any_user(ms, cur, title) ==
  LET kept == SelectSeq(ms, LAMBDA r : r.title # title)
  IN [ret |-> Len(ms) - Len(kept) > 0, movies |-> kept]

\* delete_movie(title): DELETE ... WHERE title = :title AND user_id = :user_id
delete_movie(ms, cur, title) ==
  LET kept == SelectSeq(ms, LAMBDA r : ~ (r.title = title /\ SqlEq(r.user_id, cur)))
  IN [ret |-> Len(ms) - Len(kept) > 0, movies |-> kept]

\* an UPDATE that matches the title for every owner
update_movie_any_user(ms, cur, title, note) ==
  [ret |-> \E i \in 1..Len(ms) : ms[i].title = title,
   movies |-> [i \in 1..Len(ms) |->
                 IF ms[i].title = title THEN [ms[i] EXCEPT !.note = note] ELSE ms[i]]]

\* update_movie(title, note): UPDATE ... SET note = :note WHERE title = :title
\* AND user_id = :user_id
update_movie(ms, cur, title, note) ==
  LET hit(r) == r.title = title /\ SqlEq(r.user_id, cur)
  IN [ret |-> Len(SelectSeq(ms, hit)) > 0,
      movies |-> [i \in 1..Len(ms) |->
                    IF hit(ms[i]) THEN [ms[i] EXCEPT !.note = note] ELSE ms[i]]]

(* ------------------------- the storage as a library -------------------- *)

\* what the last step did: the operation, its arguments and its outcome
Blank ==
  [op |-> "", handler |-> None, name |-> <<>>, title |-> <<>>, note |-> <<>>,
   uid |-> None, resp |-> NoResponse, requested |-> FALSE, ret |-> "",
   exc |-> "", listing |-> <<>>, calls |-> <<>>, line |-> <<>>,
   lines |-> <<>>, guard |-> "", out |-> <<>>, avg |-> <<>>, median |-> None]

Bool(b) == IF b THEN "True" ELSE "False"

Init ==
  /\ users = <<>>
  /\ movies = <<>>
  /\ current_user_id = None
  /\ files = {}
  /\ empty_attempts = 0
  /\ pc = "idle"
  /\ last = Blank

CreateUser ==
  \E name \in NameInputs :
    LET r == create_user(users, name)
    IN /\ pc = "idle"
       /\ pc' = "returned"
       /\ Len(r.users) <= MaxUsers
       /\ users' = r.users
       /\ last' = [Blank EXCEPT !.op = "create_user", !.name = name, !.ret = r.ret]
       /\ UNCHANGED <<movies, current_user_id, files, empty_attempts>>

\* set_active_user(user_id)
SetActiveUser ==
  \E id \in IdInputs :
    /\ pc = "idle"
    /\ pc' = "returned"
    /\ current_user_id' = id
    /\ last' = [Blank EXCEPT !.op = "set_active_user", !.uid = id]
    /\ UNCHANGED <<users, movies, files, empty_attempts>>

ListMovies ==
  /\ pc = "idle"
  /\ pc' = "returned"
  /\ last' = [Blank EXCEPT !.op = "list_movies",
                           !.listing = list_movies(movies, current_user_id)]
  /\ UNCHANGED <<users, movies, current_user_id, files, empty_attempts>>

\* the metadata service answers only when add_movie makes the request
AddMovie ==
  \E title \in TitleInputs, note \in NoteInputs :
    \E resp \in IF add_movie(users, movies, current_user_id, title, note,
                             NoResponse).requested
                THEN Responses ELSE {NoResponse} :
      LET r == add_movie(users, movies, current_user_id, title, note, resp)
      IN /\ pc = "idle"
         /\ pc' = "returned"
         /\ Len(r.movies) <= MaxMovies
         /\ movies' = r.movies
         /\ last' = [Blank EXCEPT !.op = "add_movie", !.title = title,
                                  !.note = note, !.resp = resp,
                                  !.requested = r.requested,
                                  !.ret = r.ret, !.exc = r.exc]
         /\ UNCHANGED <<users, current_user_id, files, empty_attempts>>

DeleteMovie ==
  \E title \in TitleInputs :
    LET r == delete_movie(movies, current_user_id, title)
    IN /\ pc = "idle"
       /\ pc' = "returned"
       /\ movies' = r.movies
       /\ last' = [Blank EXCEPT !.op = "delete_movie", !.title = title,
                                !.ret = Bool(r.ret)]
       /\ UNCHANGED <<users, current_user_id, files, empty_attempts>>

UpdateMovie ==
  \E title \in TitleInputs, note \in NoteInputs :
    LET r == update_movie(movies, current_user_id, title, note)
    IN /\ pc = "idle"
       /\ pc' = "returned"
       /\ movies' = r.movies
       /\ last' = [Blank EXCEPT !.op = "update_movie", !.title = title,
                                !.note = note, !.ret = Bool(r.ret)]
       /\ UNCHANGED <<users, current_user_id, files, empty_attempts>>

\* the calling script prints the outcome and goes on to its next call
Report ==
  /\ pc = "returned"
  /\ pc' = "idle"
  /\ last' = Blank
  /\ UNCHANGED <<users, movies, current_user_id, files, empty_attempts>>

Next ==
  \/ Report
  \/ CreateUser
  \/ SetActiveUser
  \/ ListMovies
  \/ AddMovie
  \/ DeleteMovie
  \/ UpdateMovie

Spec == Init /\ [][Next]_vars

(* ----------------------------- the menu -------------------------------- *)

\* most prompts one handler repeats before its input is accepted
MaxPrompts == 2

\* most consecutive empty menu lines counted
MaxEmptyAttempts == 1

\* the decimal numeral of n < 100
Numeral(n) ==
  IF n < 10 THEN <<Digits[n + 1]>>
  ELSE <<Digits[(n \div 10) + 1], Digits[(n % 10) + 1]>>

\* lines typed at the menu prompt
ChoiceInputs ==
  {Numeral(n) : n \in 0..14}
    \cup { <<>>, <<" ">>, <<"x">>, <<"²">>, <<" ","2"," ">>, <<"0","1","3">> }

\* lines typed at the prompts of switch_user_view
SwitchInputs == { <<>>, <<"x">>, <<"²">>, <<"1">>, <<" ","2">>, <<"3">>, <<"9">> }

NameLines ==
  { <<>>, <<"g","u","e","s","t">>, <<"G","U","E","S","T"," ">>, <<" ","b","O","B">> }

\* lines typed at the "Enter movie note" prompt
NoteLines == { <<>>, <<" ","o","k">> }

\* lines typed at the histogram file name prompt
FileLines == { <<" ">>, <<" ","h",".","p","n","g">> }

\* lines typed at the y/n prompt
YesNoLines == { <<"y">>, <<" ","N">>, <<"x">> }

\* lines typed at the three prompts of filter_movies_view
RatingLines == { <<>>, <<"8">>, <<"8",".","3">>, <<"x">>, <<"N","a","N">> }

YearLines == { <<>>, <<"2","0","0","0">>, <<"x">> }

RatingsPng == <<"r","a","t","i","n","g","s",".","p","n","g">>

IndexHtml == <<"_","s","t","a","t","i","c","/","i","n","d","e","x",".","h","t","m","l">>

\* the dispatch table: view[key + 1] is the view_name of key
view ==
  <<"Exit", "ListMovies", "AddMovie", "DeleteMovie", "UpdateMovie", "States",
    "RandomMovie", "SearchMovie", "MoviesSortedByRating", "CreateRatingHistogram",
    "MoviesChronological", "FilterMovies", "GenerateWebsite", "SwitchUser">>

\* what main does with a line: choice.strip(), the test for empty, then
\* choice.isdigit() and int(choice) in view
menu_choice(line) ==
  LET choice == Strip(line)
  IN IF choice = <<>> THEN [kind |-> "empty", key |-> None]
     ELSE IF ~ IsDigit(choice) THEN [kind |-> "invalid", key |-> None]
     ELSE IF PyInt(choice) = None THEN [kind |-> "ValueError", key |-> None]
     ELSE IF PyInt(choice) \in 0..(Len(view) - 1)
     THEN [kind |-> "view", key |-> PyInt(choice)]
     ELSE [kind |-> "invalid", key |-> None]

\* the lines that dispatch to each key of view
ChosenLines ==
  [k \in 0..(Len(view) - 1) |->
     {line \in ChoiceInputs : menu_choice(line) = [kind |-> "view", key |-> k]}]

Chosen(k) == ChosenLines[k]

EmptyLines == {line \in ChoiceInputs : menu_choice(line).kind = "empty"}

InvalidLines == {line \in ChoiceInputs : menu_choice(line).kind = "invalid"}

ValueErrorLines == {line \in ChoiceInputs : menu_choice(line).kind = "ValueError"}

\* a guard that compares the stored name with "guest" without lower()
require_logged_user_case_sensitive(us, cur) ==
  /\ cur # None
  /\ ~ \E i \in 1..Len(us) :
         us[i].id = cur /\ us[i].name = <<"g","u","e","s","t">>

\* require_logged_user()
require_logged_user(us, cur) ==
  /\ cur # None
  /\ LET listed == get_users(us)
     IN ~ \E i \in 1..Len(listed) :
            listed[i].id = cur /\ Lower(listed[i].name) = <<"g","u","e","s","t">>

\* the storage calls require_logged_user makes
guard_calls(cur) ==
  IF cur = None THEN <<"get_active_user">> ELSE <<"get_active_user", "get_users">>

\* the keys of the dict list_movies returns, in insertion order
RECURSIVE KeysOf(_, _)
KeysOf(rows, seen) ==
  IF rows = <<>> THEN <<>>
  ELSE IF Head(rows).title \in seen THEN KeysOf(Tail(rows), seen)
  ELSE <<Head(rows).title>> \o KeysOf(Tail(rows), seen \cup {Head(rows).title})

DictKeys(ms, cur) == KeysOf(SelectSeq(ms, LAMBDA r : SqlEq(r.user_id, cur)), {})

\* sorted(movies): the titles in ascending order
RECURSIVE SortedTitles(_)
SortedTitles(S) ==
  IF S = {} THEN <<>>
  ELSE LET m == CHOOSE t \in S : \A u \in S \ {t} : StrLess(t, u)
       IN <<m>> \o SortedTitles(S \ {m})

\* sorted(movies.items(), key=..., reverse=...): stable in both directions
RECURSIVE SortedBy(_, _, _)
SortedBy(keys, f, reverse) ==
  IF keys = <<>> THEN <<>>
  ELSE LET m == CHOOSE i \in 1..Len(keys) :
                  /\ \A j \in 1..Len(keys) :
                       IF reverse THEN f[keys[j]] <= f[keys[i]]
                       ELSE f[keys[j]] >= f[keys[i]]
                  /\ \A j \in 1..(i - 1) : f[keys[j]] # f[keys[i]]
       IN <<keys[m]>> \o
          SortedBy(SubSeq(keys, 1, m - 1) \o SubSeq(keys, m + 1, Len(keys)), f, reverse)

\* the sequences of lines a prompt loop reads: it stops at the first line
\* that is accepted
PromptSeqs(Q, accepted) ==
  {q \in Q :
     /\ q[Len(q)] \in accepted
     /\ \A i \in 1..(Len(q) - 1) : q[i] \notin accepted}

\* the sequences of at most MaxPrompts lines typed at a title prompt
TitleLineSeqs == UNION {[1..n -> TitleInputs] : n \in 1..MaxPrompts}

\* the sequences of at most MaxPrompts lines typed at the y/n prompt
YesNoLineSeqs == UNION {[1..n -> YesNoLines] : n \in 1..MaxPrompts}

Entry(k, line) ==
  [Blank EXCEPT !.op = view[k + 1], !.handler = k, !.line = line,
                !.calls = guard_calls(current_user_id),
                !.guard = IF require_logged_user(users, current_user_id)
                          THEN "pass" ELSE "fail"]

\* the handler returns to main, which prints the menu again
Return(entry) ==
  /\ last' = entry
  /\ pc' = "loop"
  /\ empty_attempts' = 0

\* an exception nothing catches ends the process
Raise(entry, exc) ==
  /\ last' = [entry EXCEPT !.exc = exc]
  /\ pc' = "crashed"
  /\ empty_attempts' = 0

\* data/movies.db and the written files outlive the process: CREATE TABLE IF
\* NOT EXISTS keeps the rows of earlier launches. The users those launches
\* created, by create_user on the names typed in switch_user_view:
RECURSIVE UsersAfter(_)
UsersAfter(names) ==
  IF names = <<>> THEN <<>>
  ELSE LET us == UsersAfter(SubSeq(names, 1, Len(names) - 1))
           name == Strip(names[Len(names)])
       IN IF name = <<>> THEN us ELSE create_user(us, name).users

PersistedUsers ==
  {UsersAfter(q) : q \in UNION {[1..n -> NameLines] : n \in 0..MaxUsers}}

\* the ids of the users the guard lets add movies
Owners(us) ==
  {us[i].id : i \in {k \in 1..Len(us) : require_logged_user(us, us[k].id)}}

\* the rows add_movie stored for a sequence of <<active user, typed title,
\* OMDb body>>
RECURSIVE MoviesAfter(_, _)
MoviesAfter(us, adds) ==
  IF adds = <<>> THEN <<>>
  ELSE LET a == adds[Len(adds)]
       IN add_movie(us, MoviesAfter(us, SubSeq(adds, 1, Len(adds) - 1)), a[1],
                    Strip(a[2]), <<>>, [http |-> "ok", data |-> a[3]]).movies

\* the rows after update_movie set the note of the first k of them
RECURSIVE NotesAfter(_, _, _)
NotesAfter(ms, notes, k) ==
  IF k = 0 THEN ms
  ELSE update_movie(NotesAfter(ms, notes, k - 1), ms[k].user_id, ms[k].title,
                    Strip(notes[k])).movies

PersistedMovies(us) ==
  UNION {{NotesAfter(MoviesAfter(us, q), notes, Len(MoviesAfter(us, q))) :
            notes \in [1..Len(MoviesAfter(us, q)) -> NoteLines]} :
         q \in UNION {[1..n -> Owners(us) \X TitleInputs \X {OmdbUp, OmdbAlien}] :
                        n \in 0..MaxMovies}}

\* a row as an older version stored it, in a movies table without the genre
\* column
WithoutGenre(row) == [f \in (DOMAIN row) \ {"genre"} |-> row[f]]

\* the movies table found at a launch: a table of an older version, without
\* the genre column, or a table with the column, in which the rows older than
\* an earlier migration (the first k) have the default genre ''
KeptMovies(us) ==
  UNION {{[i \in 1..Len(ms) |-> WithoutGenre(ms[i])]} \cup
         {[i \in 1..Len(ms) |-> IF i <= k THEN [ms[i] EXCEPT !.genre = ""] ELSE ms[i]] :
            k \in 0..Len(ms)} :
         ms \in PersistedMovies(us)}

\* module initialisation, the migration: when the movies table has no genre
\* column, ALTER TABLE movies ADD COLUMN genre TEXT DEFAULT '' gives every
\* row the genre ''
migration(ms) ==
  LET column_names == UNION {DOMAIN ms[i] : i \in 1..Len(ms)}
  IN IF ms # <<>> /\ "genre" \notin column_names
     THEN [i \in 1..Len(ms) |->
             [f \in (DOMAIN ms[i]) \cup {"genre"} |->
                IF f = "genre" THEN "" ELSE ms[i][f]]]
     ELSE ms

\* the files rating_histogram_view and generate_website_view wrote
PersistedFiles(us) ==
  IF Owners(us) = {} THEN {{}}
  ELSE SUBSET ({IndexHtml} \cup
               {IF Strip(f) # <<>> THEN Strip(f) ELSE RatingsPng : f \in FileLines})

\* a launch of movies.py: the database and the files are what earlier
\* launches left (nothing at the first launch), the movies table is migrated,
\* no user is active
MenuInit ==
  /\ \E us \in PersistedUsers :
       /\ users = us
       /\ \E kept \in KeptMovies(us) : movies = migration(kept)
       /\ files \in PersistedFiles(us)
  /\ current_user_id = None
  /\ empty_attempts = 0
  /\ pc = "loop"
  /\ last = Blank

\* main, the top of the loop: the user name shown in the prompt
Prompt ==
  /\ pc = "loop"
  /\ pc' = "input"
  /\ last' = [Blank EXCEPT
       !.op = "prompt",
       !.name = IF /\ current_user_id # None
                   /\ \E i \in 1..Len(users) : users[i].id = current_user_id
                THEN users[CHOOSE i \in 1..Len(users) :
                             users[i].id = current_user_id].name
                ELSE <<"g","u","e","s","t">>]
  /\ UNCHANGED <<users, movies, current_user_id, files, empty_attempts>>

\* main: an empty line
EmptyChoice ==
  /\ pc = "input"
  /\ \E line \in EmptyLines :
    /\ pc = "input"
    /\ empty_attempts < MaxEmptyAttempts
    /\ empty_attempts' = empty_attempts + 1
    /\ pc' = "loop"
    /\ last' = [Blank EXCEPT !.op = "empty", !.line = line]
    /\ UNCHANGED <<users, movies, current_user_id, files>>

\* main: a line that is no key of view
InvalidChoice ==
  /\ pc = "input"
  /\ \E line \in InvalidLines :
    /\ pc = "input"
    /\ empty_attempts' = 0
    /\ pc' = "loop"
    /\ last' = [Blank EXCEPT !.op = "invalid", !.line = line]
    /\ UNCHANGED <<users, movies, current_user_id, files>>

\* main: a line isdigit() accepts and int() rejects
ChoiceValueError ==
  /\ pc = "input"
  /\ \E line \in ValueErrorLines :
    /\ pc = "input"
    /\ Raise([Blank EXCEPT !.op = "main", !.line = line], "ValueError")
    /\ UNCHANGED <<users, movies, current_user_id, files>>

exit_view ==
  /\ pc = "input"
  /\ \E line \in Chosen(0) :
    /\ pc = "input"
    /\ pc' = "exited"
    /\ empty_attempts' = 0
    /\ last' = [Blank EXCEPT !.op = view[1], !.handler = 0, !.line = line]
    /\ UNCHANGED <<users, movies, current_user_id, files>>

get_movies_view ==
  /\ pc = "input"
  /\ \E line \in Chosen(1) :
    /\ pc = "input"
    /\ IF ~ require_logged_user(users, current_user_id)
       THEN Return(Entry(1, line))
       ELSE Return([Entry(1, line) EXCEPT
              !.calls = @ \o <<"list_movies">>,
              !.out = SortedTitles(DOMAIN list_movies(movies, current_user_id))])
    /\ UNCHANGED <<users, movies, current_user_id, files>>

add_movie_view ==
  /\ pc = "input"
  /\ \E line \in Chosen(2) :
    \E typed \in IF require_logged_user(users, current_user_id)
                 THEN TitleInputs ELSE {<<>>} :
      \E resp \in IF /\ require_logged_user(users, current_user_id)
                     /\ Strip(typed) # <<>>
                     /\ add_movie(users, movies, current_user_id, Strip(typed),
                                  <<>>, NoResponse).requested
                  THEN Responses ELSE {NoResponse} :
        LET r == add_movie(users, movies, current_user_id, Strip(typed), <<>>, resp)
            e == [Entry(2, line) EXCEPT !.title = typed]
            called == [e EXCEPT !.calls = @ \o <<"add_movie">>, !.resp = resp,
                                !.requested = r.requested, !.ret = r.ret]
        IN /\ pc = "input"
           /\ IF ~ require_logged_user(users, current_user_id)
              THEN Return(e) /\ movies' = movies
              ELSE IF Strip(typed) = <<>>
              THEN Return([e EXCEPT !.ret = "Title cannot be empty."]) /\ movies' = movies
              ELSE IF r.exc = "ConnectionError"
              THEN /\ Return([called EXCEPT !.ret = "OMDb API is not accessible."])
                   /\ movies' = movies
              ELSE IF r.exc # ""
              THEN Raise(called, r.exc) /\ movies' = movies
              ELSE /\ Len(r.movies) <= MaxMovies
                   /\ Return(called)
                   /\ movies' = r.movies
           /\ UNCHANGED <<users, current_user_id, files>>

delete_movie_view ==
  /\ pc = "input"
  /\ \E line \in Chosen(3) :
    LET listed == DOMAIN list_movies(movies, current_user_id)
        Accepts == {t \in TitleInputs : Strip(t) = <<>> \/ Strip(t) \in listed}
    IN \E typed \in IF require_logged_user(users, current_user_id)
                    THEN PromptSeqs(TitleLineSeqs, Accepts) ELSE {<<>>} :
         LET e == [Entry(3, line) EXCEPT !.lines = typed]
             title == Strip(typed[Len(typed)])
         IN /\ pc = "input"
            /\ IF ~ require_logged_user(users, current_user_id)
               THEN Return(e) /\ movies' = movies
               ELSE IF title = <<>>
               THEN /\ Return([e EXCEPT !.calls = @ \o <<"list_movies">>])
                    /\ movies' = movies
               ELSE /\ Return([e EXCEPT !.calls = @ \o <<"list_movies", "delete_movie">>,
                                        !.title = title])
                    /\ movies' = delete_movie(movies, current_user_id, title).movies
            /\ UNCHANGED <<users, current_user_id, files>>

update_movie_view ==
  /\ pc = "input"
  /\ \E line \in Chosen(4) :
    LET listed == DOMAIN list_movies(movies, current_user_id)
        Accepts == {t \in TitleInputs : Strip(t) = <<>> \/ Strip(t) \in listed}
    IN \E typed \in IF require_logged_user(users, current_user_id)
                    THEN PromptSeqs(TitleLineSeqs, Accepts) ELSE {<<>>} :
         \E noted \in IF /\ require_logged_user(users, current_user_id)
                         /\ Strip(typed[Len(typed)]) # <<>>
                      THEN NoteLines ELSE {<<>>} :
           LET e == [Entry(4, line) EXCEPT !.lines = typed]
               title == Strip(typed[Len(typed)])
           IN /\ pc = "input"
              /\ IF ~ require_logged_user(users, current_user_id)
                 THEN Return(e) /\ movies' = movies
                 ELSE IF title = <<>>
                 THEN /\ Return([e EXCEPT !.calls = @ \o <<"list_movies">>])
                      /\ movies' = movies
                 ELSE /\ Return([e EXCEPT
                           !.calls = @ \o <<"list_movies", "update_movie">>,
                           !.title = title, !.note = Strip(noted)])
                      /\ movies' = update_movie(movies, current_user_id, title,
                                                Strip(noted)).movies
              /\ UNCHANGED <<users, current_user_id, files>>

\* sum(ratings), in tenths
RECURSIVE sum(_, _)
sum(keys, rating) ==
  IF keys = <<>> THEN 0 ELSE rating[Head(keys)] + sum(Tail(keys), rating)

\* states_view, avg = sum(ratings) / len(ratings): the quotient kept as the
\* pair of its numerator (in tenths) and its denominator
average(keys, rating) == <<sum(keys, rating), Len(keys)>>

\* a median taken in the order of the dict, without sorting
median_unsorted(keys, rating) ==
  LET mid == Len(keys) \div 2
  IN IF Len(keys) % 2 = 1
     THEN 2 * rating[keys[mid + 1]]
     ELSE rating[keys[mid]] + rating[keys[mid + 1]]

\* states_view, the median of the ratings: sorted_items is sorted by rating,
\* mid = len // 2, the item at mid for an odd count, the sum of the items at
\* mid - 1 and mid divided by 2 for an even count. The value is in twentieths
\* (tenths of a rating times 2), so that the division by 2 is exact.
median(keys, rating) ==
  LET sorted_items == SortedBy(keys, rating, FALSE)
      mid == Len(sorted_items) \div 2
  IN IF Len(sorted_items) % 2 = 1
     THEN 2 * rating[sorted_items[mid + 1]]
     ELSE rating[sorted_items[mid]] + rating[sorted_items[mid + 1]]

\* states_view: the average, the median, the best and the worst movie (max
\* and min keep the first of equals)
states_view ==
  /\ pc = "input"
  /\ \E line \in Chosen(5) :
    LET L == list_movies(movies, current_user_id)
        keys == DictKeys(movies, current_user_id)
        rating == [t \in DOMAIN L |-> L[t].rating]
    IN /\ pc = "input"
       /\ IF ~ require_logged_user(users, current_user_id)
          THEN Return(Entry(5, line))
          ELSE IF DOMAIN L = {}
          THEN Return([Entry(5, line) EXCEPT !.calls = @ \o <<"list_movies">>,
                                             !.ret = "No movies available."])
          ELSE Return([Entry(5, line) EXCEPT
                 !.calls = @ \o <<"list_movies">>,
                 !.avg = average(keys, rating),
                 !.median = median(keys, rating),
                 !.out = <<SortedBy(keys, rating, TRUE)[1],
                           SortedBy(keys, rating, FALSE)[1]>>])
       /\ UNCHANGED <<users, movies, current_user_id, files>>

random_movie_view ==
  /\ pc = "input"
  /\ \E line \in Chosen(6) :
    LET L == list_movies(movies, current_user_id)
    IN \E pick \in IF require_logged_user(users, current_user_id) /\ DOMAIN L # {}
                   THEN DOMAIN L ELSE {<<>>} :
         /\ pc = "input"
         /\ IF ~ require_logged_user(users, current_user_id)
            THEN Return(Entry(6, line))
            ELSE IF DOMAIN L = {}
            THEN Return([Entry(6, line) EXCEPT !.calls = @ \o <<"list_movies">>,
                                               !.ret = "No movies available."])
            ELSE Return([Entry(6, line) EXCEPT !.calls = @ \o <<"list_movies">>,
                                               !.out = <<pick>>])
         /\ UNCHANGED <<users, movies, current_user_id, files>>

\* search_movie_view: the titles equal to the query ignoring case; the prefix
\* and difflib matches it prints after them are not part of the state
search_movie_view ==
  /\ pc = "input"
  /\ \E line \in Chosen(7) :
    \E typed \in IF require_logged_user(users, current_user_id)
                 THEN TitleInputs ELSE {<<>>} :
      LET keys == DictKeys(movies, current_user_id)
          query == Lower(Strip(typed))
          e == [Entry(7, line) EXCEPT !.title = typed]
      IN /\ pc = "input"
         /\ IF ~ require_logged_user(users, current_user_id)
            THEN Return(e)
            ELSE IF query = <<>>
            THEN Return([e EXCEPT !.calls = @ \o <<"list_movies">>])
            ELSE Return([e EXCEPT
                   !.calls = @ \o <<"list_movies">>,
                   !.out = SelectSeq(keys, LAMBDA t : Lower(t) = query)])
         /\ UNCHANGED <<users, movies, current_user_id, files>>

sorted_movies_view ==
  /\ pc = "input"
  /\ \E line \in Chosen(8) :
    LET L == list_movies(movies, current_user_id)
    IN /\ pc = "input"
       /\ IF ~ require_logged_user(users, current_user_id)
          THEN Return(Entry(8, line))
          ELSE Return([Entry(8, line) EXCEPT
                 !.calls = @ \o <<"list_movies">>,
                 !.out = SortedBy(DictKeys(movies, current_user_id),
                                  [t \in DOMAIN L |-> L[t].rating], FALSE)])
       /\ UNCHANGED <<users, movies, current_user_id, files>>

rating_histogram_view ==
  /\ pc = "input"
  /\ \E line \in Chosen(9) :
    \E typed \in IF require_logged_user(users, current_user_id)
                 THEN FileLines ELSE {<<>>} :
      LET filename == IF Strip(typed) # <<>> THEN Strip(typed) ELSE RatingsPng
      IN /\ pc = "input"
         /\ IF ~ require_logged_user(users, current_user_id)
            THEN Return(Entry(9, line)) /\ files' = files
            ELSE /\ Return([Entry(9, line) EXCEPT !.calls = @ \o <<"list_movies">>,
                                                  !.out = <<filename>>])
                 /\ files' = files \cup {filename}
         /\ UNCHANGED <<users, movies, current_user_id>>

chronological_movies_view ==
  /\ pc = "input"
  /\ \E line \in Chosen(10) :
    LET L == list_movies(movies, current_user_id)
        Accepts == {t \in YesNoLines : Lower(Strip(t)) \in {<<"y">>, <<"n">>}}
    IN \E typed \in IF require_logged_user(users, current_user_id)
                    THEN PromptSeqs(YesNoLineSeqs, Accepts) ELSE {<<>>} :
         LET e == [Entry(10, line) EXCEPT !.lines = typed]
         IN /\ pc = "input"
            /\ IF ~ require_logged_user(users, current_user_id)
               THEN Return(e)
               ELSE Return([e EXCEPT
                      !.calls = @ \o <<"list_movies">>,
                      !.out = SortedBy(DictKeys(movies, current_user_id),
                                       [t \in DOMAIN L |-> L[t].year],
                                       Lower(Strip(typed[Len(typed)])) = <<"y">>)])
            /\ UNCHANGED <<users, movies, current_user_id, files>>

filter_movies_view ==
  /\ pc = "input"
  /\ \E line \in Chosen(11) :
    \E a \in IF require_logged_user(users, current_user_id) THEN RatingLines ELSE {<<>>},
       b \in IF require_logged_user(users, current_user_id) THEN YearLines ELSE {<<>>},
       c \in IF require_logged_user(users, current_user_id) THEN YearLines ELSE {<<>>} :
      LET L == list_movies(movies, current_user_id)
          e == [Entry(11, line) EXCEPT !.lines = <<a, b, c>>]
          listed == [e EXCEPT !.calls = @ \o <<"list_movies">>]
          min_rating == IF Strip(a) # <<>> THEN PyFloat(Strip(a)) ELSE None
          start_year == IF Strip(b) # <<>> THEN PyInt(Strip(b)) ELSE None
          end_year == IF Strip(c) # <<>> THEN PyInt(Strip(c)) ELSE None
          Passes(t) ==
            /\ ~ (min_rating # None /\ FloatLess(L[t].rating, min_rating))
            /\ ~ (start_year # None /\ L[t].year < start_year)
            /\ ~ (end_year # None /\ L[t].year > end_year)
      IN /\ pc = "input"
         /\ IF ~ require_logged_user(users, current_user_id)
            THEN Return(Entry(11, line))
            ELSE IF Strip(a) # <<>> /\ PyFloat(Strip(a)) = None
            THEN Return([listed EXCEPT !.ret = "Invalid minimum rating."])
            ELSE IF Strip(b) # <<>> /\ PyInt(Strip(b)) = None
            THEN Return([listed EXCEPT !.ret = "Invalid start year."])
            ELSE IF Strip(c) # <<>> /\ PyInt(Strip(c)) = None
            THEN Return([listed EXCEPT !.ret = "Invalid end year."])
            ELSE Return([listed EXCEPT
                   !.out = SelectSeq(DictKeys(movies, current_user_id), Passes)])
         /\ UNCHANGED <<users, movies, current_user_id, files>>

\* generate_website_view: the page written to _static/index.html
generate_website_view ==
  /\ pc = "input"
  /\ \E line \in Chosen(12) :
    /\ pc = "input"
    /\ IF ~ require_logged_user(users, current_user_id)
       THEN Return(Entry(12, line)) /\ files' = files
       ELSE /\ Return([Entry(12, line) EXCEPT !.calls = @ \o <<"list_movies">>,
                                              !.out = <<IndexHtml>>])
            /\ files' = files \cup {IndexHtml}
    /\ UNCHANGED <<users, movies, current_user_id>>

\* a lookup of the new user by the name as typed, without normalizing it
resolve_user_raw(us, name) ==
  LET listed == get_users(us)
  IN IF \E i \in 1..Len(listed) : listed[i].name = name
     THEN listed[CHOOSE i \in 1..Len(listed) :
                   /\ listed[i].name = name
                   /\ \A j \in 1..(i - 1) : listed[j].name # name].id
     ELSE None

\* switch_user_view after a successful creation: normalized =
\* name.strip().capitalize(), then the id of the first listed user of that
\* name (None when the loop finds none and set_active_user is not called)
resolve_user(us, name) ==
  LET normalized == Capitalize(Strip(name))
      listed == get_users(us)
  IN IF \E i \in 1..Len(listed) : listed[i].name = normalized
     THEN listed[CHOOSE i \in 1..Len(listed) :
                   /\ listed[i].name = normalized
                   /\ \A j \in 1..(i - 1) : listed[j].name # normalized].id
     ELSE None

switch_user_view ==
  /\ pc = "input"
  /\ \E line \in Chosen(13), typed \in SwitchInputs :
    LET listed == get_users(users)
        choice == Strip(typed)
        n == PyInt(choice)
        e == [Blank EXCEPT !.op = view[14], !.handler = 13, !.line = line,
                           !.lines = <<typed>>, !.calls = <<"get_users">>]
    IN \E named \in IF IsDigit(choice) /\ n = Len(listed) + 1
                    THEN NameLines ELSE {<<>>} :
         LET name == Strip(named)
             r == create_user(users, name)
             created == [e EXCEPT !.name = named, !.ret = r.ret,
                                  !.calls = @ \o <<"create_user">>]
         IN /\ pc = "input"
            /\ IF ~ IsDigit(choice)
               THEN Return(e) /\ UNCHANGED <<users, current_user_id>>
               ELSE IF n = None
               THEN Raise(e, "ValueError") /\ UNCHANGED <<users, current_user_id>>
               ELSE IF 1 <= n /\ n <= Len(listed)
               THEN /\ Return([e EXCEPT !.calls = @ \o <<"set_active_user">>,
                                        !.uid = listed[n].id])
                    /\ current_user_id' = listed[n].id
                    /\ users' = users
               ELSE IF n # Len(listed) + 1
               THEN Return(e) /\ UNCHANGED <<users, current_user_id>>
               ELSE IF name = <<>>
               THEN Return([e EXCEPT !.name = named])
                    /\ UNCHANGED <<users, current_user_id>>
               ELSE IF r.ret # "User created successfully."
               THEN Return(created) /\ UNCHANGED <<users, current_user_id>>
               ELSE /\ Len(r.users) <= MaxUsers
                    /\ users' = r.users
                    /\ IF resolve_user(r.users, name) # None
                       THEN /\ current_user_id' = resolve_user(r.users, name)
                            /\ Return([created EXCEPT
                                 !.calls = @ \o <<"get_users", "set_active_user">>,
                                 !.uid = resolve_user(r.users, name)])
                       ELSE /\ current_user_id' = current_user_id
                            /\ Return([created EXCEPT !.calls = @ \o <<"get_users">>])
            /\ UNCHANGED <<movies, files>>

MenuNext ==
  \/ Prompt
  \/ EmptyChoice
  \/ InvalidChoice
  \/ ChoiceValueError
  \/ exit_view
  \/ get_movies_view
  \/ add_movie_view
  \/ delete_movie_view
  \/ update_movie_view
  \/ states_view
  \/ random_movie_view
  \/ search_movie_view
  \/ sorted_movies_view
  \/ rating_histogram_view
  \/ chronological_movies_view
  \/ filter_movies_view
  \/ generate_website_view
  \/ switch_user_view

MenuSpec == MenuInit /\ [][MenuNext]_vars

(* ------------------ the statistics of a stored collection --------------- *)

\* most movies of the collection states_view is applied to
MaxStatsMovies == 4

\* the ratings of the stored movies, in tenths (2.0, 4.0, 6.0, 8.0)
StatsRatings == {20, 40, 60, 80}

\* the row add_movie stored for the i-th movie of the user, of rating r
StatsRow(i, r) ==
  [title |-> <<Uppers[i]>>, year |-> 2000, rating |-> r, poster |-> "",
   imdb_id |-> "", country |-> "", note |-> <<>>, genre |-> "", user_id |-> 1]

\* main at the top of its loop, user Bob active, with a collection of at most
\* MaxStatsMovies movies in the order they were added
StatsInit ==
  /\ users = <<[name |-> Bob, id |-> 1]>>
  /\ current_user_id = 1
  /\ \E n \in 0..MaxStatsMovies :
       \E r \in [1..n -> StatsRatings] :
         movies = [i \in 1..n |-> StatsRow(i, r[i])]
  /\ files = {}
  /\ empty_attempts = 0
  /\ pc = "loop"
  /\ last = Blank

StatsNext ==
  \/ Prompt
  \/ states_view

StatsSpec == StatsInit /\ [][StatsNext]_vars

(* ------------------------------ claims --------------------------------- *)

\* C1 (as stated): whenever add_movie receives a successful metadata response
\* whose canonical title differs, ignoring case, from the trimmed query title,
\* it returns "Movie not found." and inserts no row.
C1_ExactTitleOnly ==
  [][(/\ last'.op = "add_movie"
      /\ last'.requested
      /\ last'.resp.http = "ok"
      /\ last'.resp.data.Response = "True"
      /\ Lower(Strip(last'.title)) # Lower(last'.resp.data.Title))
     => (last'.ret = "Movie not found." /\ movies' = movies)]_vars

\* C2: no two stored movie rows have the same (title, owning user id) pair.
C2_TitleOwnerUnique ==
  \A i, j \in 1..Len(movies) :
    i # j => ~ (movies[i].title = movies[j].title /\ movies[i].user_id = movies[j].user_id)

\* C2 witness: an add of a title the active user already owns was just refused
\* while another user owns the same title.
C2_Witness ==
  /\ last.op = "add_movie"
  /\ last.ret = "Movie already exists."
  /\ Len(movies) = 2
  /\ movies[1].title = movies[2].title
  /\ movies[1].user_id # movies[2].user_id
  /\ last.resp.data.Title = movies[1].title

\* C3 (as stated): after a successful fetch add_movie returns "Movie already
\* exists." exactly when the active user already owns the fetched title, and
\* then the rows are unchanged; in every other case it appends one row for the
\* active user and returns "Movie added successfully.".
C3_ExistsIffOwned ==
  [][(/\ last'.op = "add_movie"
      /\ last'.requested
      /\ last'.resp.http = "ok"
      /\ last'.resp.data.Response = "True"
      /\ last'.exc = "")
     => LET owned == \E i \in 1..Len(movies) :
                       /\ movies[i].title = last'.resp.data.Title
                       /\ movies[i].user_id = current_user_id
        IN /\ (last'.ret = "Movie already exists.") <=> owned
           /\ owned => movies' = movies
           /\ ~ owned =>
                /\ last'.ret = "Movie added successfully."
                /\ Len(movies') = Len(movies) + 1
                /\ SubSeq(movies', 1, Len(movies)) = movies
                /\ movies'[Len(movies')].user_id = current_user_id
                /\ movies'[Len(movies')].title = last'.resp.data.Title]_vars

\* C4: a transport failure of the metadata request makes add_movie raise
\* ConnectionError and never return "Movie not found."; a "no match" answer
\* makes it return "Movie not found." without raising; the rows stay unchanged
\* in both cases.
C4_UnavailableIsNotNotFound ==
  [][(last'.op = "add_movie" /\ last'.requested)
     => /\ last'.resp.http = "error"
           => /\ last'.exc = "ConnectionError"
              /\ last'.ret # "Movie not found."
              /\ movies' = movies
        /\ (last'.resp.http = "ok" /\ last'.resp.data.Response = "False")
           => /\ last'.ret = "Movie not found."
              /\ last'.exc = ""
              /\ movies' = movies]_vars

\* C4 witness: add_movie has raised ConnectionError with rows stored.
C4_Witness ==
  /\ last.op = "add_movie"
  /\ last.requested
  /\ last.resp.http = "error"
  /\ last.exc = "ConnectionError"
  /\ Len(movies) > 0

\* C5: delete_movie returns True exactly when the active user owned a row with
\* exactly that title, and removes that row only; otherwise it returns False
\* and users and movies are unchanged.
C5_DeleteOwnedRowOnly ==
  [][(last'.op = "delete_movie")
     => LET owned == {i \in 1..Len(movies) :
                        /\ current_user_id # None
                        /\ movies[i].user_id = current_user_id
                        /\ movies[i].title = last'.title}
        IN /\ (last'.ret = "True") <=> (owned # {})
           /\ (last'.ret = "False") <=> (owned = {})
           /\ owned # {} =>
                \E i \in owned :
                  movies' = SubSeq(movies, 1, i - 1) \o SubSeq(movies, i + 1, Len(movies))
           /\ owned = {} => movies' = movies
           /\ users' = users]_vars

\* C5 witness: a delete returned True and left the other user's row with the
\* same title in place.
C5_Witness ==
  /\ last.op = "delete_movie"
  /\ last.ret = "True"
  /\ Len(movies) = 1
  /\ movies[1].title = last.title
  /\ movies[1].user_id # current_user_id

\* C6: update_movie returns True and changes only the note of the active user's
\* row with exactly that title; every other field, every other row and all
\* users are unchanged; with no such row it returns False and changes nothing.
C6_UpdateNoteOnly ==
  [][(last'.op = "update_movie")
     => LET owned == {i \in 1..Len(movies) :
                        /\ current_user_id # None
                        /\ movies[i].user_id = current_user_id
                        /\ movies[i].title = last'.title}
        IN /\ (last'.ret = "True") <=> (owned # {})
           /\ (last'.ret = "False") <=> (owned = {})
           /\ owned # {} =>
                \E i \in owned : movies' = [movies EXCEPT ![i].note = last'.note]
           /\ owned = {} => movies' = movies
           /\ users' = users]_vars

\* C6 witness: an update returned True, the row carries the new note and the
\* other user's row with the same title still carries its own.
C6_Witness ==
  /\ last.op = "update_movie"
  /\ last.ret = "True"
  /\ Len(movies) = 2
  /\ movies[1].title = movies[2].title
  /\ \E i \in 1..2 :
       /\ movies[i].user_id = current_user_id
       /\ movies[i].note = last.note
       /\ movies[3 - i].note # last.note

\* C7: list_movies returns exactly the rows owned by the active user, keyed by
\* title, each with the fields of that row, and nothing when no user is active.
C7_ListingIsOwnRows ==
  (last.op = "list_movies")
  => LET mine == {i \in 1..Len(movies) : movies[i].user_id = current_user_id}
     IN /\ DOMAIN last.listing = {movies[i].title : i \in mine}
        /\ Cardinality(DOMAIN last.listing) = Cardinality(mine)
        /\ \A i \in mine :
             last.listing[movies[i].title] =
               [year |-> movies[i].year, rating |-> movies[i].rating,
                poster |-> movies[i].poster, imdb_id |-> movies[i].imdb_id,
                country |-> movies[i].country, note |-> movies[i].note,
                genre |-> movies[i].genre]
        /\ current_user_id = None => DOMAIN last.listing = {}

\* C7 witness: a listing taken while another user owns the same title with a
\* different note.
C7_Witness ==
  /\ last.op = "list_movies"
  /\ Len(movies) = 2
  /\ movies[1].title = movies[2].title
  /\ movies[1].note # movies[2].note
  /\ \E i \in 1..2 : movies[i].user_id = current_user_id
  /\ Cardinality(DOMAIN last.listing) = 1

\* C8 (as stated): create_user returns the duplicate outcome and leaves the
\* users unchanged when the normalized name is stored already; otherwise it
\* adds exactly one user with the normalized name; no two users share a name.
C8_CreateOrDuplicate ==
  [][(last'.op = "create_user")
     => LET normalized == Capitalize(Strip(last'.name))
        IN /\ (\E i \in 1..Len(users) : users[i].name = normalized)
              => /\ last'.ret = "Username already exists. Try another one."
                 /\ users' = users
           /\ (~ \E i \in 1..Len(users) : users[i].name = normalized)
              => /\ Len(users') = Len(users) + 1
                 /\ SubSeq(users', 1, Len(users)) = users
                 /\ users'[Len(users')].name = normalized
           /\ \A i, j \in 1..Len(users') : i # j => users'[i].name # users'[j].name]_vars

\* C8 (amended): the same, for every non-empty name argument.
C8_CreateOrDuplicateNonEmpty ==
  [][(last'.op = "create_user" /\ last'.name # <<>>)
     => LET normalized == Capitalize(Strip(last'.name))
        IN /\ (\E i \in 1..Len(users) : users[i].name = normalized)
              => /\ last'.ret = "Username already exists. Try another one."
                 /\ users' = users
           /\ (~ \E i \in 1..Len(users) : users[i].name = normalized)
              => /\ last'.ret = "User created successfully."
                 /\ Len(users') = Len(users) + 1
                 /\ SubSeq(users', 1, Len(users)) = users
                 /\ users'[Len(users')].name = normalized
           /\ \A i, j \in 1..Len(users') : i # j => users'[i].name # users'[j].name]_vars

\* C8 witness: a name that differs from a stored one in case and surrounding
\* whitespace only was refused as a duplicate.
C8_Witness ==
  /\ last.op = "create_user"
  /\ last.ret = "Username already exists. Try another one."
  /\ last.name # <<>>
  /\ \E i \in 1..Len(users) :
       /\ users[i].name = Capitalize(Strip(last.name))
       /\ users[i].name # last.name
       /\ users[i].name # Strip(last.name)

\* C9: while no user is active, or the active user is named guest (ignoring
\* case), each of the handlers 1 to 12 returns to the menu without calling
\* add_movie, delete_movie or update_movie, without changing the active user
\* and without writing a file; users and movies are unchanged.
C9_GuardedHandlersDoNothing ==
  [][(/\ pc = "input"
      /\ last'.handler \in 1..12
      /\ \/ current_user_id = None
         \/ \E i \in 1..Len(users) :
              /\ users[i].id = current_user_id
              /\ Lower(users[i].name) = <<"g","u","e","s","t">>)
     => /\ pc' = "loop"
        /\ \A k \in 1..Len(last'.calls) :
             last'.calls[k] \notin
               {"add_movie", "delete_movie", "update_movie", "set_active_user",
                "create_user"}
        /\ current_user_id' = current_user_id
        /\ files' = files
        /\ users' = users
        /\ movies' = movies]_vars

\* C9 witness: the delete handler has returned at its guard while the user
\* named Guest is active and movies are stored.
C9_Witness ==
  /\ pc = "loop"
  /\ last.handler = 3
  /\ last.guard = "fail"
  /\ last.calls = <<"get_active_user", "get_users">>
  /\ \E i \in 1..Len(users) :
       users[i].id = current_user_id /\ users[i].name = Guest
  /\ Len(movies) > 0

\* C10 (as stated): every line read at the menu prompt leads back to the
\* prompt; an empty, non-numeric or out-of-range line invokes no handler, a
\* choice 1 to 13 invokes its handler, which returns; only choice 0 ends the
\* loop.
C10_OnlyExitEndsTheLoop ==
  [][(pc = "input")
     => LET choice == Strip(last'.line)
        IN /\ pc' = "loop" \/ (pc' = "exited" /\ last'.handler = 0)
           /\ last'.handler = 0 => pc' = "exited"
           /\ IF IsDecimal(choice) /\ PyInt(choice) \in 0..13
              THEN last'.handler = PyInt(choice)
              ELSE last'.handler = None]_vars

\* C11: in switch_user_view, a listed number makes exactly the listed user of
\* that position (in name order) active; "create new" with a name whose
\* creation succeeds makes the newly stored user, whose name is the
\* normalized input, active; in every other case (duplicate or invalid name,
\* blank name, a choice that is no listed number) the active user is unchanged.
C11_SwitchUserActivates ==
  [][(pc = "input" /\ last'.op = "SwitchUser") =>
       LET choice == Strip(last'.lines[1])
           n == IF IsDigit(choice) THEN PyInt(choice) ELSE None
           shown == OrderByName(users)
       IN IF n # None /\ 1 <= n /\ n <= Len(users)
          THEN current_user_id' = shown[n].id /\ users' = users
          ELSE IF n = Len(users) + 1 /\ last'.ret = "User created successfully."
          THEN \E i \in 1..Len(users') :
                 /\ users'[i].name = Capitalize(Strip(last'.name))
                 /\ \A j \in 1..Len(users) : users[j] # users'[i]
                 /\ \A j \in 1..Len(users) : users[j].id # users'[i].id
                 /\ current_user_id' = users'[i].id
          ELSE current_user_id' = current_user_id /\ users' = users]_vars

\* a second user was created from the line " bOB" while the first was active,
\* and the new user is now the active one
C11_Witness ==
  /\ last.op = "SwitchUser"
  /\ last.ret = "User created successfully."
  /\ last.name = <<" ","b","O","B">>
  /\ Len(users) = 2
  /\ \E i \in 1..Len(users) : users[i].name = Bob /\ users[i].id = current_user_id
  /\ \E i \in 1..Len(users) : users[i].name = Guest /\ users[i].id # current_user_id

\* C12 (as stated): filter_movies_view outputs exactly the active user's
\* movies that satisfy every supplied bound at once (rating >= min rating,
\* year >= start year, year <= end year, a blank bound restricting nothing),
\* and when one of the three inputs is non-blank and unparsable it prints an
\* error and outputs no movie.
C12_FilterIsConjunction ==
  [][(pc = "input" /\ last'.op = "FilterMovies" /\ last'.guard = "pass") =>
       LET a == Strip(last'.lines[1])
           b == Strip(last'.lines[2])
           c == Strip(last'.lines[3])
           Ge(x, y) == x # NaN /\ y # NaN /\ x >= y
           Satisfies(row) ==
             /\ a = <<>> \/ Ge(row.rating, PyFloat(a))
             /\ b = <<>> \/ row.year >= PyInt(b)
             /\ c = <<>> \/ row.year <= PyInt(c)
           Output == {last'.out[i] : i \in 1..Len(last'.out)}
       IN IF \/ a # <<>> /\ PyFloat(a) = None
             \/ b # <<>> /\ PyInt(b) = None
             \/ c # <<>> /\ PyInt(c) = None
          THEN /\ last'.out = <<>>
               /\ last'.ret \in {"Invalid minimum rating.", "Invalid start year.",
                                 "Invalid end year."}
          ELSE /\ last'.ret = Blank.ret
               /\ Output = {movies[i].title : i \in
                             {k \in 1..Len(movies) :
                                /\ movies[k].user_id = current_user_id
                                /\ Satisfies(movies[k])}}]_vars

\* C13: for every non-empty collection of the active user's movies, the
\* median states_view reports is the middle rating of the ratings in ascending
\* order when their count is odd and the mean of the two middle ratings when
\* it is even (twice the median is compared, the ratings being in tenths).
C13_MedianRule ==
  (pc = "loop" /\ last.op = "States" /\ last.guard = "pass") =>
    LET own == {i \in 1..Len(movies) : movies[i].user_id = current_user_id}
        n == Cardinality(own)
        Kth(k) == CHOOSE v \in {movies[i].rating : i \in own} :
                    /\ Cardinality({i \in own : movies[i].rating < v}) < k
                    /\ k <= Cardinality({i \in own : movies[i].rating <= v})
    IN IF n = 0 THEN last.median = None /\ last.ret = "No movies available."
       ELSE IF n % 2 = 1 THEN last.median = 2 * Kth((n + 1) \div 2)
       ELSE last.median = Kth(n \div 2) + Kth((n \div 2) + 1)

\* the ratings 8, 2, 6, 4 were added in that order and the reported median is
\* 5.0, the mean of 4 and 6
C13_Witness ==
  /\ pc = "loop" /\ last.op = "States"
  /\ [i \in 1..Len(movies) |-> movies[i].rating] = <<80, 20, 60, 40>>
  /\ last.median = 100

\* C14: after any sequence of storage operations every stored movie row's
\* owner id is the id of a stored user; in particular add_movie called with
\* no active user, or with an active id that belongs to no user, stores no
\* movie.
C14_OwnersExist ==
  [][/\ \A i \in 1..Len(movies') :
          \E j \in 1..Len(users') : users'[j].id = movies'[i].user_id
     /\ (/\ last'.op = "add_movie"
         /\ ~ \E j \in 1..Len(users) : users[j].id = current_user_id)
        => movies' = movies]_vars

\* the active id 3 belongs to no user; add_movie fetched the movie Up and
\* stored nothing
C14_Witness ==
  /\ last.op = "add_movie"
  /\ last.requested /\ last.resp.http = "ok" /\ last.resp.data = OmdbUp
  /\ last.exc = ""
  /\ Len(users) >= 1
  /\ current_user_id # None
  /\ \A j \in 1..Len(users) : users[j].id # current_user_id
  /\ movies = <<>>

\* C15 (as stated): after any sequence of create_user calls no stored user has
\* an empty name, and for every name that is empty after trimming create_user
\* returns "Invalid username." and stores nothing.
C15_NoEmptyUserName ==
  [][/\ \A i \in 1..Len(users') : users'[i].name # <<>>
     /\ (last'.op = "create_user" /\ Strip(last'.name) = <<>>)
        => (last'.ret = "Invalid username." /\ users' = users)]_vars

====
